---------------------------- MODULE Spec2Model ----------------------------
(***************************************************************************)
(* Usage-aware session and quota management of the UOI chat relay:         *)
(*   - MemoryManager  (src/memory_manager.py): per-user rolling sessions   *)
(*   - TokenManager   (src/token_manager.py):  file-backed usage ledger    *)
(*   - main.py: policy selection and the on_message request handler        *)
(*   - website.py: status dashboard thread that reads the ledger           *)
(*                                                                         *)
(* Time is a counter of minutes `now`; the UTC date of a minute is         *)
(* Today(now).  Dates are positive numbers, 0 stands for the empty date    *)
(* string "" of a fresh ledger.                                            *)
(***************************************************************************)
EXTENDS Integers, Sequences, FiniteSets, TLC

VARIABLES
    cfg,          \* configuration: expiry_minutes, max_exchanges, limit, api_key,
                  \* and the usage objects the provider reports in this run
    now,          \* the clock, in minutes
    sessions,     \* MemoryManager._sessions: user_id -> [messages, last_active]
    ret,          \* return value of the last get_session_messages call
    last,         \* the last MemoryManager call: op, user, and what it found
    live,         \* history: turns appended per user since the user's last idle gap
    lastAppendAt, \* history: time of each user's last add_message
    nAppends,     \* number of add_message calls made through the API so far
    noSweep,      \* history: the store and the last read of the same calls made
                  \* without any clear_expired_sessions call
    built,        \* the last _build_messages call: its inputs and the list built
    file,         \* token_stats.json: [ok, data]; ok is FALSE while the file is cut
    initFile,     \* history: the ledger file the process started with
    req,          \* the on_message invocations, by request number
    nReq,         \* number of on_message invocations begun
    loop,         \* the event-loop thread: running request, position, locals
    dash,         \* the dashboard's handler thread: position, local stats
    nGets,        \* number of dashboard GETs begun
    recordedOn,   \* history: amounts passed to update_usage, by the call's date
    resets,       \* history: number of daily resets applied, by date
    usageOrder,   \* history: requests in the order they called update_usage
    lastCheck,    \* history: the date the latest reset rule compared against
    led           \* the ledger called directly: the file as JSON, the last call

memVars == <<sessions, ret, last, live, lastAppendAt, nAppends, noSweep, built>>

callVars == <<ret, last, live, lastAppendAt, nAppends, noSweep, built>>

botVars == <<file, initFile, req, nReq, loop, dash, nGets, recordedOn, resets,
             usageOrder, lastCheck, led>>

vars == <<cfg, now, sessions, ret, last, live, lastAppendAt, nAppends,
          noSweep, built,
          file, initFile, req, nReq, loop, dash, nGets, recordedOn, resets,
          usageOrder, lastCheck, led>>

(***************************************************************************)
(* Bounds of the model.                                                    *)
(***************************************************************************)
MaxNow == 2
MaxAppends == 3
MaxExpiryMinutes == 1
MaxMaxExchanges == 1
MaxRequests == 2
MaxGets == 1
MaxLedgerCalls == 3
\* length of a UTC day on the model's clock
MinutesPerDay == 2

Users == {1, 2}
Roles == {"user", "assistant"}

\* The store never inspects a turn's text, so the text of the k-th
\* add_message call is the tag k: any two turns can be told apart.
NextContent == nAppends + 1

Min(a, b) == IF a < b THEN a ELSE b
Max(a, b) == IF a > b THEN a ELSE b

(***************************************************************************)
(* Python list slicing: the stop index of  lst[:stop]  on a list of        *)
(* length n.  A negative stop counts from the end; -0 is 0.                *)
(***************************************************************************)
SliceStop(stop, n) ==
    IF stop < 0 THEN Max(stop + n, 0) ELSE Min(stop, n)

\* del lst[:stop]
DelPrefix(lst, stop) ==
    SubSeq(lst, SliceStop(stop, Len(lst)) + 1, Len(lst))

\* the last k elements of a sequence (all of it when it is shorter)
LastN(s, k) == SubSeq(s, Len(s) - Min(k, Len(s)) + 1, Len(s))

\* dict assignment d[k] = v
DictSet(d, k, v) == [x \in (DOMAIN d) \cup {k} |-> IF x = k THEN v ELSE d[x]]

\* dict with the keys in ks popped
DictDrop(d, ks) == [x \in (DOMAIN d) \ ks |-> d[x]]

(***************************************************************************)
(* MemoryManager                                                           *)
(***************************************************************************)
\* MemoryManager.__init__: max_messages = max_exchanges * 2
max_messages == cfg.max_exchanges * 2

NewSession(t) == [messages |-> <<>>, last_active |-> t]

\* mutant of _is_expired: operands of the subtraction swapped
IsExpiredSwapped(last_active, t) == last_active - t > cfg.expiry_minutes

\* _is_expired: now - last_active > timedelta(minutes=expiry_minutes)
IsExpired(last_active, t) == t - last_active > cfg.expiry_minutes

\* _ensure_session: create when absent, replace when expired
EnsureSession(S, u, t) ==
    IF u \notin DOMAIN S THEN DictSet(S, u, NewSession(t))
    ELSE IF IsExpired(S[u].last_active, t) THEN DictSet(S, u, NewSession(t))
    ELSE S

\* the retention rule of add_message:
\*   if len(messages) > max_messages: del messages[:-max_messages]
Retain(messages) ==
    IF Len(messages) > max_messages
    THEN DelPrefix(messages, 0 - max_messages)
    ELSE messages

\* add_message
AddMessage(S, u, role, content, t) ==
    LET S1 == EnsureSession(S, u, t)
        msgs == Append(S1[u].messages, [role |-> role, content |-> content])
    IN DictSet(S1, u, [messages |-> Retain(msgs), last_active |-> t])

\* mutant of get_session_messages: the read refreshes last_active
GetSessionTouch(S, u, t) ==
    LET S1 == EnsureSession(S, u, t)
    IN DictSet(S1, u, [messages |-> S1[u].messages, last_active |-> t])

\* get_session_messages: the store after the call; the value returned is
\* the messages of the user's session in that store
GetSessionStore(S, u, t) == EnsureSession(S, u, t)

GetSessionMessages(S, u, t) == GetSessionStore(S, u, t)[u].messages

\* mutant of clear_expired_sessions: every session is removed
ClearAllSessions(S, t) == << >>

\* mutant of clear_expired_sessions: >= in place of >
ClearExpiredGE(S, t) ==
    DictDrop(S, {u \in DOMAIN S : t - S[u].last_active >= cfg.expiry_minutes})

\* clear_expired_sessions
ClearExpiredSessions(S, t) ==
    DictDrop(S, {u \in DOMAIN S : t - S[u].last_active > cfg.expiry_minutes})

(***************************************************************************)
(* _build_messages.  A message's content is a number: 0 is the text of     *)
(* get_system_prompt(), a positive number is the tag of a turn or prompt,  *)
(* and the repository context built from the entries e1, e2, ... is the    *)
(* negative number whose decimal digits are e1 e2 ..., so that two         *)
(* different entry lists give two different contents.                      *)
(***************************************************************************)
\* get_system_prompt()
SystemPrompt == 0

RECURSIVE Reversed(_)
\* reversed(lst)
Reversed(lst) ==
    IF lst = <<>> THEN <<>>
    ELSE <<lst[Len(lst)]>> \o Reversed(SubSeq(lst, 1, Len(lst) - 1))

\* RepositoryManager.get_latest_entries: list(reversed(entries[-limit:]))
GetLatestEntries(entries, limit) == Reversed(LastN(entries, limit))

RECURSIVE Joined(_)
\* "\n".join(f"- [...] {content}" for entry in repo_entries), as a number
Joined(entries) ==
    IF entries = <<>> THEN 0
    ELSE 10 * Joined(SubSeq(entries, 1, Len(entries) - 1)) + entries[Len(entries)]

\* f"Latest repository memory (most recent first):\n{repository_context}"
RepositoryContext(entries) == 0 - Joined(entries)

\* mutant of _build_messages: the new prompt is put before the history
BuildMessagesPromptFirst(repo_entries, memory_messages, user_prompt) ==
    <<[role |-> "system", content |-> SystemPrompt]>>
      \o <<[role |-> "user", content |-> user_prompt]>>
      \o (IF repo_entries # <<>>
          THEN <<[role |-> "system", content |-> RepositoryContext(repo_entries)]>>
          ELSE <<>>)
      \o memory_messages

\* _build_messages, from the entries and the turns its two reads returned
BuildMessages(repo_entries, memory_messages, user_prompt) ==
    <<[role |-> "system", content |-> SystemPrompt]>>
      \o (IF repo_entries # <<>>
          THEN <<[role |-> "system", content |-> RepositoryContext(repo_entries)]>>
          ELSE <<>>)
      \o memory_messages
      \o <<[role |-> "user", content |-> user_prompt]>>

(***************************************************************************)
(* TokenManager: the ledger file and the three steps of each ledger call   *)
(* (read the file, open it for writing, which cuts it to length 0, and     *)
(* write the new content).                                                 *)
(***************************************************************************)
\* _today_utc
Today(t) == 1 + (t \div MinutesPerDay)

MaxDay == Today(MaxNow)

\* _default_stats  (last_reset_date 0 is the empty string)
DefaultStats ==
    [total_prompt |-> 0, total_completion |-> 0, total_tokens |-> 0,
     daily_prompt |-> 0, daily_completion |-> 0, daily_tokens |-> 0,
     last_reset_date |-> 0]

\* the file just after open("w"): empty, not yet written
Truncated == [ok |-> FALSE, data |-> DefaultStats]

\* the file after _write(data) has completed
Written(data) == [ok |-> TRUE, data |-> data]

\* _read: the parsed record; json.load of an empty file raises
\* JSONDecodeError, which _read answers with the defaults
ReadFile(f) == IF f.ok THEN f.data ELSE DefaultStats

\* mutant of _reset_daily_if_needed: the stored date is not advanced
ResetKeepsDate(data, today) ==
    IF data.last_reset_date # today
    THEN [data EXCEPT !.daily_prompt = 0, !.daily_completion = 0,
                      !.daily_tokens = 0]
    ELSE data

\* _reset_daily_if_needed
ResetDailyIfNeeded(data, today) ==
    IF data.last_reset_date # today
    THEN [data EXCEPT !.daily_prompt = 0, !.daily_completion = 0,
                      !.daily_tokens = 0, !.last_reset_date = today]
    ELSE data

\* mutant of update_usage: the lifetime total is assigned, not incremented
AddUsageOverwrites(data, p, c, t) ==
    [data EXCEPT !.total_prompt = @ + p, !.total_completion = @ + c,
                 !.total_tokens = t,
                 !.daily_prompt = @ + p, !.daily_completion = @ + c,
                 !.daily_tokens = @ + t]

\* mutant of update_usage: only the lifetime counters are incremented
AddUsageLifetimeOnly(data, p, c, t) ==
    [data EXCEPT !.total_prompt = @ + p, !.total_completion = @ + c,
                 !.total_tokens = @ + t]

\* update_usage: the six increments
AddUsage(data, p, c, t) ==
    [data EXCEPT !.total_prompt = @ + p, !.total_completion = @ + c,
                 !.total_tokens = @ + t,
                 !.daily_prompt = @ + p, !.daily_completion = @ + c,
                 !.daily_tokens = @ + t]

\* whether _reset_daily_if_needed takes its branch
NeedsReset(data, today) == data.last_reset_date # today

(***************************************************************************)
(* TokenManager on the file as JSON text.  A JSON value is [t, v]: an      *)
(* integer, a string or null.  A string is held by a number: a date        *)
(* (0 for "") or -1 for text that is neither a date nor a numeral.  The    *)
(* file is absent, holds text json.load rejects, holds a JSON value that   *)
(* is not an object, or holds an object.                                   *)
(***************************************************************************)
Keys == DOMAIN DefaultStats

CounterKeys ==
    <<"total_prompt", "total_completion", "total_tokens",
      "daily_prompt", "daily_completion", "daily_tokens">>

JInt(n) == [t |-> "int", v |-> n]
JStr(s) == [t |-> "str", v |-> s]
JNull == [t |-> "null", v |-> 0]

\* json.dump of a record of counters and a date string
ToJson(data) ==
    [k \in Keys |-> IF k = "last_reset_date" THEN JStr(data[k])
                    ELSE JInt(data[k])]

\* the numbers held by a JSON object that has every field
FromJson(obj) == [k \in Keys |-> obj[k].v]

AbsentDoc == [kind |-> "absent", obj |-> << >>]
GarbageDoc == [kind |-> "garbage", obj |-> << >>]
NonObjectDoc == [kind |-> "nonobject", obj |-> << >>]
ObjectDoc(obj) == [kind |-> "object", obj |-> obj]

\* a file as _write leaves it: an object with six integers and a date
WellFormed(doc) ==
    /\ doc.kind = "object"
    /\ DOMAIN doc.obj = Keys
    /\ \A k \in Keys :
          IF k = "last_reset_date"
          THEN doc.obj[k].t = "str" /\ doc.obj[k].v >= 0
          ELSE doc.obj[k].t = "int"

\* mutant of _ensure_file: the defaults are written over an existing file
EnsureFileAlways(doc) == ObjectDoc(ToJson(DefaultStats))

\* _ensure_file: the defaults are written when the file does not exist
EnsureFile(doc) ==
    IF doc.kind = "absent" THEN ObjectDoc(ToJson(DefaultStats)) ELSE doc

\* data.setdefault(key, value) for every default
SetDefaults(obj) ==
    [k \in Keys \cup DOMAIN obj |->
        IF k \in DOMAIN obj THEN obj[k] ELSE ToJson(DefaultStats)[k]]

\* _read: OSError (the file is absent or cannot be read) and
\* JSONDecodeError are answered with the defaults; a parsed value that is
\* not a dict has no setdefault, and the AttributeError is not caught
JsonRead(doc, ioerr) ==
    IF ioerr \/ doc.kind \in {"absent", "garbage"}
    THEN [exc |-> "", data |-> ToJson(DefaultStats)]
    ELSE IF doc.kind = "nonobject"
    THEN [exc |-> "AttributeError", data |-> << >>]
    ELSE [exc |-> "", data |-> SetDefaults(doc.obj)]

\* mutant of _reset_daily_if_needed: the reset is applied on every call
JsonResetAlways(data, today) ==
    [data EXCEPT !.daily_prompt = JInt(0), !.daily_completion = JInt(0),
                 !.daily_tokens = JInt(0), !.last_reset_date = JStr(today)]

\* mutant of _reset_daily_if_needed: the lifetime total is reset as well
JsonResetLifetimeToo(data, today) ==
    IF data.last_reset_date # JStr(today)
    THEN [data EXCEPT !.daily_prompt = JInt(0), !.daily_completion = JInt(0),
                      !.daily_tokens = JInt(0), !.total_tokens = JInt(0),
                      !.last_reset_date = JStr(today)]
    ELSE data

\* _reset_daily_if_needed on the parsed object
JsonReset(data, today) ==
    IF data.last_reset_date # JStr(today)
    THEN [data EXCEPT !.daily_prompt = JInt(0), !.daily_completion = JInt(0),
                      !.daily_tokens = JInt(0), !.last_reset_date = JStr(today)]
    ELSE data

\* int(value): the exception it raises, "" when it returns
PyIntExc(val) ==
    CASE val.t = "int" -> ""
      [] val.t = "str" -> "ValueError"
      [] OTHER -> "TypeError"

\* update_usage, lines 64-70: the exception of the first int() that fails
JsonAddExc(data) ==
    LET bad == {i \in 1..Len(CounterKeys) : PyIntExc(data[CounterKeys[i]]) # ""}
    IN IF bad = {} THEN ""
       ELSE PyIntExc(data[CounterKeys[CHOOSE i \in bad : \A j \in bad : i <= j]])

\* mutant of update_usage: the epoch completion count is not incremented
JsonAddSkipsDaily(data, p, c, t) ==
    [data EXCEPT !.total_prompt = JInt(@.v + p),
                 !.total_completion = JInt(@.v + c),
                 !.total_tokens = JInt(@.v + t),
                 !.daily_prompt = JInt(@.v + p),
                 !.daily_tokens = JInt(@.v + t)]

\* mutant of update_usage: the lifetime token total is not incremented
JsonAddEpochOnly(data, p, c, t) ==
    [data EXCEPT !.total_prompt = JInt(@.v + p),
                 !.total_completion = JInt(@.v + c),
                 !.daily_prompt = JInt(@.v + p),
                 !.daily_completion = JInt(@.v + c),
                 !.daily_tokens = JInt(@.v + t)]

\* update_usage, lines 64-70, when every int() returns
JsonAdd(data, p, c, t) ==
    [data EXCEPT !.total_prompt = JInt(@.v + p),
                 !.total_completion = JInt(@.v + c),
                 !.total_tokens = JInt(@.v + t),
                 !.daily_prompt = JInt(@.v + p),
                 !.daily_completion = JInt(@.v + c),
                 !.daily_tokens = JInt(@.v + t)]

\* what can go wrong with the file system during one ledger call
Faults == {"none", "read", "open_w", "write"}

\* _write: open("w") may fail and leave the file as it was; a failed
\* write after the open leaves the file cut; OSError is not caught
JsonWrite(doc, data, fault) ==
    IF fault = "open_w"
    THEN [exc |-> "OSError", snap |-> << >>, doc |-> doc]
    ELSE IF fault = "write"
    THEN [exc |-> "OSError", snap |-> << >>, doc |-> GarbageDoc]
    ELSE [exc |-> "", snap |-> data, doc |-> ObjectDoc(data)]

\* get_stats as one call: the exception raised, the value returned, the file
GetStats(doc, today, fault) ==
    LET rd == JsonRead(doc, fault = "read")
    IN IF rd.exc # ""
       THEN [exc |-> rd.exc, snap |-> << >>, doc |-> doc]
       ELSE JsonWrite(doc, JsonReset(rd.data, today), fault)

\* update_usage as one call
UpdateUsage(doc, today, amt, fault) ==
    LET rd == JsonRead(doc, fault = "read")
    IN IF rd.exc # ""
       THEN [exc |-> rd.exc, snap |-> << >>, doc |-> doc]
       ELSE LET data == JsonReset(rd.data, today)
            IN IF JsonAddExc(data) # ""
               THEN [exc |-> JsonAddExc(data), snap |-> << >>, doc |-> doc]
               ELSE JsonWrite(doc, JsonAdd(data, amt.p, amt.c, amt.t), fault)

(***************************************************************************)
(* usage_counter.update_and_format_usage: the three counts read from the   *)
(* provider's usage object.  A field of the object is an integer, None,    *)
(* or absent.                                                              *)
(***************************************************************************)
IntField(v) == [kind |-> "int", v |-> v]
NoneField == [kind |-> "none", v |-> 0]
AbsentField == [kind |-> "absent", v |-> 0]

\* int(getattr(usage, name, dflt) or 0)
GetAttrOr0(f, dflt) ==
    IF f.kind = "absent" THEN dflt
    ELSE IF f.kind = "none" THEN 0
    ELSE f.v

UsageTokens(usage) ==
    LET p == GetAttrOr0(usage.prompt_tokens, 0)
        c == GetAttrOr0(usage.completion_tokens, 0)
        t == GetAttrOr0(usage.total_tokens, p + c)
    IN [p |-> p, c |-> c, t |-> t]

\* usage objects the provider reports in the model
Usages ==
    { [prompt_tokens |-> IntField(1), completion_tokens |-> IntField(2),
       total_tokens |-> IntField(3)],
      [prompt_tokens |-> IntField(4), completion_tokens |-> NoneField,
       total_tokens |-> AbsentField] }

(***************************************************************************)
(* main.py: policy selection.  The ratio daily_tokens / DAILY_TOKEN_LIMIT  *)
(* is kept as the exact fraction <<num, den>>; Python's float quotient of  *)
(* two integers is correctly rounded, so for counts below 2^53 comparing   *)
(* it with the literals 0.80 and 0.95 agrees with the exact comparison.    *)
(***************************************************************************)
DEFAULT_MODEL == "llama-3.3-70b-versatile"
FALLBACK_MODEL == "llama-3.1-8b-instant"

\* mutant of _usage_state: the quotient is taken whatever the limit
UsageRatioUnguarded(stats) == <<stats.daily_tokens, cfg.daily_token_limit>>

\* _usage_state: (ratio, daily_tokens) of the stats get_stats returned
UsageRatio(stats) ==
    IF cfg.daily_token_limit > 0
    THEN <<stats.daily_tokens, cfg.daily_token_limit>>
    ELSE <<0, 1>>

\* ratio > pct / 100
RatioGT(ratio, pct) == 100 * ratio[1] > pct * ratio[2]

\* mutant of the quota test: the refusal is never taken
OverQuotaNever(ratio) == FALSE

\* on_message: if usage_ratio > 0.95
OverQuota(ratio) == RatioGT(ratio, 95)

\* mutant of _select_model: >= in place of >
SelectModelGE(ratio) ==
    IF 100 * ratio[1] >= 80 * ratio[2] THEN FALLBACK_MODEL ELSE DEFAULT_MODEL

\* _select_model
SelectModel(ratio) ==
    IF RatioGT(ratio, 80) THEN FALLBACK_MODEL ELSE DEFAULT_MODEL

\* on_message: warning_text, "" or the notice naming daily_tokens / limit
NoWarning == <<>>

WarningText(ratio, daily_tokens) ==
    IF RatioGT(ratio, 80)
    THEN <<daily_tokens, cfg.daily_token_limit>>
    ELSE NoWarning

(***************************************************************************)
(* main.py: the except chain around _build_messages and _call_groq.        *)
(* RateLimitError is a subclass of groq's APIError; RuntimeError is what   *)
(* _call_groq raises for a missing GROQ_API_KEY.                           *)
(***************************************************************************)
Supers(exc) ==
    CASE exc = "RateLimitError" -> {"RateLimitError", "APIError", "Exception"}
      [] exc = "APIError" -> {"APIError", "Exception"}
      [] exc = "RuntimeError" -> {"RuntimeError", "Exception"}
      [] OTHER -> {"Exception"}

IsInstance(exc, cls) == cls \in Supers(exc)

\* mutant of the except chain: APIError is tested before RateLimitError
FailureOfApiFirst(exc) ==
    IF IsInstance(exc, "RuntimeError") THEN "missingCredential"
    ELSE IF IsInstance(exc, "APIError") THEN "providerError"
    ELSE IF IsInstance(exc, "RateLimitError") THEN "rateLimited"
    ELSE "unexpected"

\* the failure reported for an exception: the first except clause it matches
FailureOf(exc) ==
    IF IsInstance(exc, "RuntimeError") THEN "missingCredential"
    ELSE IF IsInstance(exc, "RateLimitError") THEN "rateLimited"
    ELSE IF IsInstance(exc, "APIError") THEN "providerError"
    ELSE "unexpected"

Failures == {"missingCredential", "rateLimited", "providerError", "unexpected"}

\* mutant of the empty-reply test: the reply is not stripped
StripNothing(text) == text

\* str.strip on the replies of the model
Strip(text) == IF text = " " THEN "" ELSE text

Replies == {"text", "", " "}

\* what the provider call of a request ends with
ProviderResults ==
    [kind : {"raise"}, exc : {"RateLimitError", "APIError", "Exception"},
     reply : {""}, usage : {CHOOSE u \in cfg.usages : TRUE}]
    \cup [kind : {"completion"}, exc : {""}, reply : Replies,
          usage : cfg.usages]

(***************************************************************************)
(* What a segment of a request did to the shared state, kept per request   *)
(* to state the claims about requests that end without a result.           *)
(***************************************************************************)
\* the turns a read at time t would return for u, without making the read
View(S, u, t) ==
    IF u \in DOMAIN S /\ ~(t - S[u].last_active > cfg.expiry_minutes)
    THEN S[u].messages
    ELSE <<>>

Lifetime(d) == <<d.total_prompt, d.total_completion, d.total_tokens>>
Epoch(d) == <<d.daily_prompt, d.daily_completion, d.daily_tokens>>

NoEffect == [store |-> FALSE, counters |-> FALSE, turns |-> FALSE,
             lifetime |-> FALSE, epoch |-> FALSE, nonempty |-> FALSE]

\* from store S0, file F0 to store S1, file F1, seen at time t
EffectOf(S0, F0, S1, F1, t) ==
    [store |-> S1 # S0,
     counters |-> (Lifetime(F1.data) # Lifetime(F0.data)
                     \/ Epoch(F1.data) # Epoch(F0.data)),
     turns |-> \E u \in Users : View(S1, u, t) # View(S0, u, t),
     lifetime |-> Lifetime(F1.data) # Lifetime(F0.data),
     epoch |-> /\ Epoch(F1.data) # Epoch(F0.data)
               /\ ~(/\ F1.data.last_reset_date # F0.data.last_reset_date
                    /\ Epoch(F1.data) = <<0, 0, 0>>),
     nonempty |-> \E u \in DOMAIN S1 :
                     /\ S1[u].messages # <<>>
                     /\ (u \notin DOMAIN S0 \/ S1[u] # S0[u])]

Both(e, f) ==
    [k \in DOMAIN e |-> e[k] \/ f[k]]

ZeroAmt == [p |-> 0, c |-> 0, t |-> 0]

\* a request not yet made.  began: how many requests had recorded usage
\* when this one began; sent: the messages sent to the channel; date1: the date of its first ledger read; amt:
\* the counts of its completion; recorded, udate, after: its place among
\* the update_usage calls, the date of its call, the epoch total returned
NewRequest ==
    [state |-> "new", user |-> 0, d1 |-> -1, d2 |-> -1, model |-> "",
     warning |-> NoWarning, outcome |-> "", exc |-> "", reply |-> "none",
     calls |-> 0, sent |-> 0,
     eff |-> NoEffect,
     began |-> 0, date1 |-> 0, amt |-> ZeroAmt, recorded |-> 0, udate |-> 0,
     after |-> -1]

IdleLoop == [cur |-> 0, pc |-> "idle", data |-> DefaultStats,
             file0 |-> Truncated, amt |-> [p |-> 0, c |-> 0, t |-> 0]]

IdleDash == [pc |-> "idle", data |-> DefaultStats]

\* the ledger variable while the ledger is called by requests only
LedIdle == [op |-> "none"]

\* the values the request variables have when no request has been made
BotIdle ==
    /\ file = Written(DefaultStats)
    /\ initFile = file
    /\ req = [r \in 1..MaxRequests |-> NewRequest]
    /\ nReq = 0
    /\ loop = IdleLoop
    /\ dash = IdleDash
    /\ nGets = 0
    /\ recordedOn = [d \in 0..MaxDay |-> ZeroAmt]
    /\ resets = [d \in 0..MaxDay |-> 0]
    /\ usageOrder = <<>>
    /\ lastCheck = 0

(***************************************************************************)
(* History of the calls, kept beside the store to state the claims.  A     *)
(* user is idle at t when no add_message was made for the user within the  *)
(* last expiry_minutes.                                                    *)
(***************************************************************************)
Idle(u, t) ==
    \/ u \notin DOMAIN lastAppendAt
    \/ t - lastAppendAt[u] > cfg.expiry_minutes

StoredLen(S, u) == IF u \in DOMAIN S THEN Len(S[u].messages) ELSE 0

NoCall == [op |-> "none", user |-> 0, idle |-> FALSE, old |-> 0,
           turn |-> [role |-> "", content |-> 0]]

\* no call made yet: the sweep-free store is empty as well
NoSweepYet == [store |-> << >>, ret |-> <<>>, old |-> 0]

\* _build_messages not called yet
NoBuild == [user |-> 0, prompt |-> 0, repo |-> <<>>, stored |-> <<>>,
            messages |-> <<>>]

MemInit ==
    /\ cfg \in [expiry_minutes : 0..MaxExpiryMinutes,
                max_exchanges : 0..MaxMaxExchanges,
                daily_token_limit : {0},
                api_key : {FALSE},
                usages : {Usages}]
    /\ BotIdle
    /\ led = LedIdle
    /\ now = 0
    /\ sessions = << >>
    /\ ret = <<>>
    /\ last = NoCall
    /\ live = [u \in Users |-> <<>>]
    /\ lastAppendAt = << >>
    /\ nAppends = 0
    /\ noSweep = NoSweepYet
    /\ built = NoBuild

\* appendTurn(userId, role, text)
AppendTurn(u, role, content) ==
    /\ nAppends < MaxAppends
    /\ nAppends' = nAppends + 1
    /\ sessions' = AddMessage(sessions, u, role, content, now)
    /\ last' = [op |-> "append", user |-> u, idle |-> Idle(u, now),
                old |-> StoredLen(sessions, u),
                turn |-> [role |-> role, content |-> content]]
    /\ live' = [live EXCEPT ![u] =
                  IF Idle(u, now)
                  THEN <<[role |-> role, content |-> content]>>
                  ELSE Append(@, [role |-> role, content |-> content])]
    /\ lastAppendAt' = DictSet(lastAppendAt, u, now)
    /\ noSweep' = [noSweep EXCEPT
                     !.store = AddMessage(@, u, role, content, now)]
    /\ UNCHANGED <<cfg, now, ret, built>>
    /\ UNCHANGED botVars

\* readTurns(userId)
ReadTurns(u) ==
    /\ sessions' = GetSessionStore(sessions, u, now)
    /\ ret' = GetSessionMessages(sessions, u, now)
    /\ last' = [op |-> "read", user |-> u, idle |-> Idle(u, now),
                old |-> StoredLen(sessions, u),
                turn |-> NoCall.turn]
    /\ noSweep' = [store |-> GetSessionStore(noSweep.store, u, now),
                   ret |-> GetSessionMessages(noSweep.store, u, now),
                   old |-> StoredLen(noSweep.store, u)]
    /\ UNCHANGED <<cfg, now, live, lastAppendAt, nAppends, built>>
    /\ UNCHANGED botVars

\* sweepExpired()
SweepExpired ==
    /\ sessions' = ClearExpiredSessions(sessions, now)
    /\ last' = [NoCall EXCEPT !.op = "sweep",
                              !.old = Cardinality(DOMAIN sessions)]
    /\ UNCHANGED <<cfg, now, ret, live, lastAppendAt, nAppends, noSweep, built>>
    /\ UNCHANGED botVars

\* a minute passes
Tick ==
    /\ now < MaxNow
    /\ now' = now + 1
    /\ UNCHANGED <<cfg, sessions, ret, last, live, lastAppendAt, nAppends,
                   noSweep, built>>
    /\ UNCHANGED botVars

(***************************************************************************)
(* C1: for every configured non-negative max_exchanges, no session ever    *)
(* holds, and get_session_messages never returns, more than                *)
(* 2 * max_exchanges turns.                                                *)
(***************************************************************************)
C1_TurnCap ==
    /\ \A u \in DOMAIN sessions : Len(sessions[u].messages) <= 2 * cfg.max_exchanges
    /\ Len(ret) <= 2 * cfg.max_exchanges

(***************************************************************************)
(* C2: a read of a session that did not expire returns exactly the last    *)
(* min(n, 2 * max_exchanges) of the n turns appended so far, in call order.*)
(***************************************************************************)
C2_ReadLastTurns ==
    (last.op = "read" /\ ~last.idle) =>
        ret = LastN(live[last.user],
                    Min(Len(live[last.user]), 2 * cfg.max_exchanges))

(***************************************************************************)
(* C3: once a user has had no add_message for longer than expiry_minutes,  *)
(* the next access behaves as for a brand-new session: a read returns the  *)
(* empty sequence and an append leaves the session holding only the new    *)
(* turn, whether or not the sweep ran in between.                          *)
(***************************************************************************)
C3_ExpiredIsFresh ==
    /\ (last.op = "read" /\ last.idle) => ret = <<>>
    /\ (last.op = "append" /\ last.idle) =>
          sessions[last.user].messages = <<last.turn>>

\* an append found an expired session that still held turns, and replaced it
C3_Witness ==
    /\ last.op = "append"
    /\ last.idle
    /\ last.old > 0
    /\ sessions[last.user].messages = <<last.turn>>

\* The store never inspects a turn's role either: the calls carry the
\* roles in the order on_message makes them, user then assistant.
NextRole == IF nAppends % 2 = 0 THEN "user" ELSE "assistant"

MemNext ==
    \/ \E u \in Users : AppendTurn(u, NextRole, NextContent)
    \/ \E u \in Users : ReadTurns(u)
    \/ SweepExpired
    \/ Tick

SpecMem == MemInit /\ [][MemNext]_vars

(***************************************************************************)
(* _build_messages called on the store, between appends and clock ticks.   *)
(* The repository file holds no entry, one entry, or more entries than the *)
(* limit of the call.                                                      *)
(***************************************************************************)
\* get_latest_entries(limit=3)
RepoLimit == 3

RepoFiles == {<<>>, <<1>>, <<1, 2, 3, 4>>}

\* _build_messages(user_id, user_prompt)
Build(u, entries, prompt) ==
    /\ sessions' = GetSessionStore(sessions, u, now)
    /\ ret' = GetSessionMessages(sessions, u, now)
    /\ last' = [op |-> "build", user |-> u, idle |-> Idle(u, now),
                old |-> StoredLen(sessions, u),
                turn |-> NoCall.turn]
    /\ built' = [user |-> u, prompt |-> prompt,
                 repo |-> GetLatestEntries(entries, RepoLimit),
                 stored |-> View(sessions, u, now),
                 messages |-> BuildMessages(GetLatestEntries(entries, RepoLimit),
                                            GetSessionMessages(sessions, u, now),
                                            prompt)]
    /\ noSweep' = [store |-> GetSessionStore(noSweep.store, u, now),
                   ret |-> GetSessionMessages(noSweep.store, u, now),
                   old |-> StoredLen(noSweep.store, u)]
    /\ UNCHANGED <<cfg, now, live, lastAppendAt, nAppends>>
    /\ UNCHANGED botVars

BuildNext ==
    \/ \E u \in Users : AppendTurn(u, NextRole, NextContent)
    \/ \E u \in Users, entries \in RepoFiles : Build(u, entries, NextContent)
    \/ Tick

\* the store as main.py configures it: one expiry time, one turn cap
BuildInit ==
    /\ MemInit
    /\ cfg.expiry_minutes = MaxExpiryMinutes
    /\ cfg.max_exchanges = MaxMaxExchanges

SpecBuild == BuildInit /\ [][BuildNext]_vars

(***************************************************************************)
(* The bot: on_message requests on the event-loop thread and the status    *)
(* dashboard's GET handler on its own thread.  The event loop runs one     *)
(* handler at a time up to its next await; the only await inside the       *)
(* handler at which another handler can run is the provider call.  The     *)
(* dashboard thread runs beside the event loop, so every ledger call is    *)
(* taken in its three file steps.                                          *)
(***************************************************************************)
\* a ledger file left by an earlier run of the process on day 1
PersistedStats ==
    [total_prompt |-> 10, total_completion |-> 10, total_tokens |-> 20,
     daily_prompt |-> 8, daily_completion |-> 8, daily_tokens |-> 16,
     last_reset_date |-> 1]

\* daily token limits configured in the model
Limits == {20}

BotInit ==
    /\ cfg \in [expiry_minutes : {MaxExpiryMinutes},
                max_exchanges : {MaxMaxExchanges},
                daily_token_limit : Limits,
                api_key : BOOLEAN,
                usages : {Usages}]
    /\ now = 0
    /\ sessions = << >>
    /\ ret = <<>>
    /\ last = NoCall
    /\ live = [u \in Users |-> <<>>]
    /\ lastAppendAt = << >>
    /\ nAppends = 0
    /\ noSweep = NoSweepYet
    /\ built = NoBuild
    \* TokenManager.__init__: _ensure_file writes the defaults when the
    \* file does not exist
    /\ file \in {Written(DefaultStats), Written(PersistedStats)}
    /\ initFile = file
    /\ req = [r \in 1..MaxRequests |-> NewRequest]
    /\ nReq = 0
    /\ loop = IdleLoop
    /\ dash = IdleDash
    /\ nGets = 0
    /\ recordedOn = [d \in 0..MaxDay |-> ZeroAmt]
    /\ resets = [d \in 0..MaxDay |-> 0]
    /\ usageOrder = <<>>
    /\ lastCheck = 0
    /\ led = LedIdle

\* history of the reset rule applied to data on the date of the clock
NoteCheck(data) ==
    /\ resets' = IF NeedsReset(data, Today(now))
                 THEN [resets EXCEPT ![Today(now)] = @ + 1]
                 ELSE resets
    /\ lastCheck' = Today(now)

\* the step "open the file for writing" of get_stats on the event loop
LoopOpenGet(next) ==
    /\ loop' = [loop EXCEPT !.data = ResetDailyIfNeeded(@, Today(now)),
                            !.pc = next]
    /\ file' = Truncated
    /\ NoteCheck(loop.data)

\* The handler treats every author alike, so the authors are numbered in
\* the order of their first message: a request comes from an author seen
\* before or from the next new one.
KnownUsers == {req[r].user : r \in 1..nReq}

FirstNewUser == Min(Cardinality(KnownUsers) + 1, Cardinality(Users))

\* mutant of _call_groq: the request is made on the event loop's thread,
\* which runs nothing else until the provider has answered
LoopHeldByCall ==
    /\ loop.pc = "idle"
    /\ \A r \in 1..MaxRequests : req[r].state # "awaiting"

\* the event loop can start a handler: no handler is between two awaits.
\* _call_groq awaits asyncio.to_thread(_request), so a pending provider
\* call does not hold the loop.
LoopFree == loop.pc = "idle"

\* on_message, line 370: _usage_state() begins, get_stats reads the file
BeginRequest(u) ==
    /\ LoopFree
    /\ nReq < MaxRequests
    /\ u \in KnownUsers \cup {FirstNewUser}
    /\ nReq' = nReq + 1
    /\ req' = [req EXCEPT ![nReq + 1] =
                 [NewRequest EXCEPT !.state = "running", !.user = u,
                                    !.began = Len(usageOrder)]]
    /\ loop' = [cur |-> nReq + 1, pc |-> "g1_open", data |-> ReadFile(file),
                file0 |-> file, amt |-> ZeroAmt]
    /\ UNCHANGED <<led, cfg, now, sessions, callVars, file, initFile, dash, nGets,
                   recordedOn, resets, lastCheck, usageOrder>>

G1Open ==
    /\ loop.pc = "g1_open"
    /\ LoopOpenGet("g1_flush")
    /\ UNCHANGED <<led, cfg, now, sessions, callVars, initFile, req, nReq, dash,
                   nGets, recordedOn, usageOrder>>

\* get_stats returns; lines 370-373: the quota test
G1Flush ==
    /\ loop.pc = "g1_flush"
    /\ file' = Written(loop.data)
    /\ LET ratio == UsageRatio(loop.data)
           r == loop.cur
       IN IF OverQuota(ratio)
          THEN /\ req' = [req EXCEPT
                            ![r].d1 = loop.data.daily_tokens,
                            ![r].date1 = loop.data.last_reset_date,
                            ![r].outcome = "quotaExceeded",
                            ![r].sent = @ + 1,
                            ![r].state = "done",
                            ![r].eff = Both(@, EffectOf(sessions, loop.file0,
                                                        sessions, file', now))]
               /\ loop' = IdleLoop
          ELSE /\ req' = [req EXCEPT
                            ![r].d1 = loop.data.daily_tokens,
                            ![r].date1 = loop.data.last_reset_date]
               /\ loop' = [loop EXCEPT !.pc = "g2_read"]
    /\ UNCHANGED <<led, cfg, now, sessions, callVars, initFile, nReq, dash, nGets,
                   recordedOn, resets, lastCheck, usageOrder>>

\* line 375: _select_model() -> _usage_state() -> get_stats reads the file
G2Read ==
    /\ loop.pc = "g2_read"
    /\ loop' = [loop EXCEPT !.data = ReadFile(file), !.pc = "g2_open"]
    /\ UNCHANGED <<led, cfg, now, sessions, callVars, file, initFile, req, nReq,
                   dash, nGets, recordedOn, resets, lastCheck, usageOrder>>

G2Open ==
    /\ loop.pc = "g2_open"
    /\ LoopOpenGet("g2_flush")
    /\ UNCHANGED <<led, cfg, now, sessions, callVars, initFile, req, nReq, dash,
                   nGets, recordedOn, usageOrder>>

\* get_stats returns; lines 375-385: the model, the warning, the message
\* list (which reads the session) and the provider call, which raises at
\* once without GROQ_API_KEY and is awaited otherwise
G2Flush ==
    /\ loop.pc = "g2_flush"
    /\ file' = Written(loop.data)
    /\ sessions' = GetSessionStore(sessions, req[loop.cur].user, now)
    /\ LET r == loop.cur
           d1 == req[r].d1
           \* usage_ratio, daily_tokens: the locals set at line 370
           ratio1 == UsageRatio([daily_tokens |-> d1])
           eff == EffectOf(sessions, loop.file0, sessions', file', now)
       IN req' = [req EXCEPT
                    ![r].d2 = loop.data.daily_tokens,
                    ![r].model = SelectModel(UsageRatio(loop.data)),
                    ![r].warning = WarningText(ratio1, d1),
                    ![r].eff = Both(@, eff),
                    ![r].calls = IF cfg.api_key THEN @ + 1 ELSE @,
                    ![r].exc = IF cfg.api_key THEN @ ELSE "RuntimeError",
                    ![r].outcome = IF cfg.api_key THEN @
                                   ELSE FailureOf("RuntimeError"),
                    ![r].sent = IF cfg.api_key THEN @ ELSE @ + 1,
                    ![r].state = IF cfg.api_key THEN "awaiting" ELSE "done"]
    /\ loop' = IdleLoop
    /\ UNCHANGED <<led, cfg, now, callVars, initFile, nReq, dash, nGets,
                   recordedOn, resets, lastCheck, usageOrder>>

\* mutant of lines 414-416: the sweep runs before the two appends and the
\* reply is appended before the prompt
SuccessEffectsReplyFirst(S, u, r, t) ==
    LET S0 == ClearExpiredSessions(S, t)
        S1 == AddMessage(S0, u, "assistant", 2 * r, t)
    IN AddMessage(S1, u, "user", 2 * r - 1, t)

\* mutant of lines 414-416: the sweep drops every other user's session
SuccessEffectsDropOthers(S, u, r, t) ==
    LET S1 == AddMessage(S, u, "user", 2 * r - 1, t)
        S2 == AddMessage(S1, u, "assistant", 2 * r, t)
    IN [x \in {u} |-> S2[x]]

\* mutant of lines 414-416: the reply is not appended
SuccessEffectsPromptOnly(S, u, r, t) ==
    ClearExpiredSessions(AddMessage(S, u, "user", 2 * r - 1, t), t)

\* lines 414-416: the prompt of request r (text 2r-1) and its reply (text
\* 2r) are appended to the user's session, then the expired sessions are
\* swept
SuccessEffects(S, u, r, t) ==
    LET S1 == AddMessage(S, u, "user", 2 * r - 1, t)
        S2 == AddMessage(S1, u, "assistant", 2 * r, t)
    IN ClearExpiredSessions(S2, t)

\* mutant of the except clauses: the provider is called again
AfterFailureRetry(rq, exc) ==
    [rq EXCEPT !.calls = @ + 1]

\* lines 386-401: the except clause that matches sends its message and
\* the handler returns
AfterFailure(rq, exc) ==
    [rq EXCEPT !.state = "done", !.exc = exc, !.outcome = FailureOf(exc),
               !.sent = @ + 1]

\* the provider call of request r ends with res and the handler goes on:
\* lines 386-412 for an exception or an empty reply, lines 414-418 up to
\* the file read of update_usage otherwise
Resume(r, res) ==
    /\ loop.pc = "idle"
    /\ req[r].state = "awaiting"
    /\ IF res.kind = "raise"
       THEN /\ req' = [req EXCEPT ![r] = AfterFailure(@, res.exc)]
            /\ UNCHANGED <<sessions, loop>>
       ELSE IF Strip(res.reply) = ""
       THEN /\ req' = [req EXCEPT ![r].state = "done", ![r].reply = res.reply,
                                  ![r].outcome = "emptyModelResponse",
                                  ![r].sent = @ + 1]
            /\ UNCHANGED <<sessions, loop>>
       ELSE /\ req' = [req EXCEPT ![r].state = "running", ![r].reply = res.reply,
                                  ![r].amt = UsageTokens(res.usage)]
            /\ sessions' = SuccessEffects(sessions, req[r].user, r, now)
            /\ loop' = [cur |-> r, pc |-> "u_open", data |-> ReadFile(file),
                        file0 |-> file, amt |-> UsageTokens(res.usage)]
    /\ UNCHANGED <<led, cfg, now, callVars, file, initFile, nReq, dash, nGets,
                   recordedOn, resets, lastCheck, usageOrder>>

\* update_usage: the reset rule, the increments, and the file opened
UOpen ==
    /\ loop.pc = "u_open"
    /\ loop' = [loop EXCEPT
                  !.data = AddUsage(ResetDailyIfNeeded(@, Today(now)),
                                    loop.amt.p, loop.amt.c, loop.amt.t),
                  !.pc = "u_flush"]
    /\ file' = Truncated
    /\ NoteCheck(loop.data)
    /\ recordedOn' = [recordedOn EXCEPT ![Today(now)] =
                        [p |-> @.p + loop.amt.p, c |-> @.c + loop.amt.c,
                         t |-> @.t + loop.amt.t]]
    /\ usageOrder' = Append(usageOrder, loop.cur)
    /\ req' = [req EXCEPT ![loop.cur].recorded = Len(usageOrder) + 1,
                          ![loop.cur].udate = Today(now)]
    /\ UNCHANGED <<led, cfg, now, sessions, callVars, initFile, nReq, dash,
                   nGets>>

\* update_usage returns; the reply is sent
UFlush ==
    /\ loop.pc = "u_flush"
    /\ file' = Written(loop.data)
    /\ req' = [req EXCEPT ![loop.cur].state = "done",
                          ![loop.cur].outcome = "result",
                          ![loop.cur].sent = @ + 1,
                          ![loop.cur].after = loop.data.daily_tokens]
    /\ loop' = IdleLoop
    /\ UNCHANGED <<led, cfg, now, sessions, callVars, initFile, nReq, dash, nGets,
                   recordedOn, resets, lastCheck, usageOrder>>

\* DashboardHandler.do_GET: stats_provider() is token_manager.get_stats
DashGet ==
    /\ dash.pc = "idle"
    /\ nGets < MaxGets
    /\ nGets' = nGets + 1
    /\ dash' = [pc |-> "open", data |-> ReadFile(file)]
    /\ UNCHANGED <<led, cfg, now, sessions, callVars, file, initFile, req, nReq,
                   loop, recordedOn, resets, lastCheck, usageOrder>>

DashOpen ==
    /\ dash.pc = "open"
    /\ dash' = [pc |-> "flush", data |-> ResetDailyIfNeeded(dash.data, Today(now))]
    /\ file' = Truncated
    /\ NoteCheck(dash.data)
    /\ UNCHANGED <<led, cfg, now, sessions, callVars, initFile, req, nReq, loop,
                   nGets, recordedOn, usageOrder>>

DashFlush ==
    /\ dash.pc = "flush"
    /\ file' = Written(dash.data)
    /\ dash' = IdleDash
    /\ UNCHANGED <<led, cfg, now, sessions, callVars, initFile, req, nReq, loop,
                   nGets, recordedOn, resets, lastCheck, usageOrder>>

\* the event loop alone: requests and the clock
LoopNext ==
    \/ \E u \in Users : BeginRequest(u)
    \/ G1Open
    \/ G1Flush
    \/ G2Read
    \/ G2Open
    \/ G2Flush
    \/ \E r \in 1..MaxRequests, res \in ProviderResults : Resume(r, res)
    \/ UOpen
    \/ UFlush
    \/ Tick

SpecLoop == BotInit /\ [][LoopNext]_vars

\* the bot started with the given limits, credentials and ledger records
BotStart(limits, keys, records) ==
    /\ cfg \in [expiry_minutes : {MaxExpiryMinutes},
                max_exchanges : {MaxMaxExchanges},
                daily_token_limit : limits,
                api_key : keys,
                usages : {Usages}]
    /\ now = 0
    /\ sessions = << >>
    /\ ret = <<>>
    /\ last = NoCall
    /\ live = [u \in Users |-> <<>>]
    /\ lastAppendAt = << >>
    /\ nAppends = 0
    /\ noSweep = NoSweepYet
    /\ built = NoBuild
    /\ file \in {Written(d) : d \in records}
    /\ initFile = file
    /\ req = [r \in 1..MaxRequests |-> NewRequest]
    /\ nReq = 0
    /\ loop = IdleLoop
    /\ dash = IdleDash
    /\ nGets = 0
    /\ recordedOn = [d \in 0..MaxDay |-> ZeroAmt]
    /\ resets = [d \in 0..MaxDay |-> 0]
    /\ usageOrder = <<>>
    /\ lastCheck = 0
    /\ led = LedIdle

\* the bot on the ledger an earlier run left, 16 of the 20 tokens of the
\* day used
TurnsInit == BotStart(Limits, BOOLEAN, {PersistedStats})

SpecTurns == TurnsInit /\ [][LoopNext]_vars

\* DAILY_TOKEN_LIMIT set to 0 or below
NoLimits == {0, -1}

UnlimitedInit == BotStart(NoLimits, {TRUE}, {PersistedStats})

SpecUnlimited == UnlimitedInit /\ [][LoopNext]_vars

\* _write raises OSError when the ledger file cannot be opened for
\* writing; get_stats and update_usage do not catch it and neither does
\* on_message, so the handler ends there and nothing is sent
WriteFails ==
    /\ loop.pc \in {"g1_open", "g2_open", "u_open"}
    /\ req' = [req EXCEPT ![loop.cur].state = "done",
                          ![loop.cur].exc = "OSError"]
    /\ loop' = IdleLoop
    /\ UNCHANGED <<led, cfg, now, sessions, callVars, file, initFile, nReq,
                   dash, nGets, recordedOn, resets, lastCheck, usageOrder>>

TurnFaultsNext ==
    \/ LoopNext
    \/ WriteFails

SpecTurnFaults == TurnsInit /\ [][TurnFaultsNext]_vars

\* the completion of end-to-end scenario 1: 900 tokens in total
Usage900 ==
    [prompt_tokens |-> IntField(600), completion_tokens |-> IntField(300),
     total_tokens |-> IntField(900)]

\* end-to-end scenario 1: a fresh ledger, DAILY_TOKEN_LIMIT = 1000, and a
\* provider whose completions report 900 tokens
ScenarioInit ==
    /\ cfg = [expiry_minutes |-> MaxExpiryMinutes,
              max_exchanges |-> MaxMaxExchanges,
              daily_token_limit |-> 1000, api_key |-> TRUE,
              usages |-> {Usage900}]
    /\ now = 0
    /\ sessions = << >>
    /\ ret = <<>>
    /\ last = NoCall
    /\ live = [u \in Users |-> <<>>]
    /\ lastAppendAt = << >>
    /\ nAppends = 0
    /\ noSweep = NoSweepYet
    /\ built = NoBuild
    /\ BotIdle
    /\ led = LedIdle

SpecScenario == ScenarioInit /\ [][LoopNext]_vars

\* the whole process: the event loop and the dashboard thread
Next ==
    \/ \E u \in Users : BeginRequest(u)
    \/ G1Open
    \/ G1Flush
    \/ G2Read
    \/ G2Open
    \/ G2Flush
    \/ \E r \in 1..MaxRequests, res \in ProviderResults : Resume(r, res)
    \/ UOpen
    \/ UFlush
    \/ Tick
    \/ DashGet
    \/ DashOpen
    \/ DashFlush

Spec == BotInit /\ [][Next]_vars

\* the ledger of a day on which 17 of the 20 tokens are used: the next
\* request is given the fallback model
NearLimitStats ==
    [PersistedStats EXCEPT !.daily_prompt = 9, !.daily_tokens = 17,
                           !.total_prompt = 11, !.total_tokens = 21]

DegradedInit == BotStart(Limits, {TRUE}, {NearLimitStats})

\* the bot and its dashboard on that ledger
SpecDegraded == DegradedInit /\ [][Next]_vars

(***************************************************************************)
(* The ledger called directly: get_stats, update_usage with the usage      *)
(* object of a completion, and a restart of the process on the same file.  *)
(* Each call runs to its end before the next begins.  led.faulty tells     *)
(* whether the file system may fail during a call.                         *)
(***************************************************************************)
\* the usage objects passed to update_and_format_usage
LedgerUsages ==
    Usages \cup
    { [prompt_tokens |-> IntField(-1), completion_tokens |-> IntField(0),
       total_tokens |-> IntField(-1)],
      [prompt_tokens |-> IntField(4), completion_tokens |-> IntField(2),
       total_tokens |-> NoneField] }

\* no usage object: the last call was not an update_and_format_usage
NoUsage ==
    [prompt_tokens |-> AbsentField, completion_tokens |-> AbsentField,
     total_tokens |-> AbsentField]

\* files that _write produced
WellFormedDocs ==
    {ObjectDoc(ToJson(DefaultStats)), ObjectDoc(ToJson(PersistedStats))}

\* files that something else left in place of the ledger
MalformedDocs ==
    { AbsentDoc, GarbageDoc, NonObjectDoc,
      ObjectDoc([k \in {"total_tokens", "last_reset_date"} |->
                    ToJson(PersistedStats)[k]]),
      ObjectDoc([ToJson(PersistedStats) EXCEPT !.total_tokens = JStr(-1)]),
      ObjectDoc([ToJson(PersistedStats) EXCEPT !.daily_tokens = JNull]) }

\* the ledger on file d before any call.  init: the file at the start;
\* op, fault, exc, snap, pre, amt, day: the last call, the fault during
\* it, what it raised and returned, the file before it, the amounts and
\* the date; fresh, restarted: a restart since the last call, before the
\* last call; prev: the snapshot and date of the call before; base, gets:
\* the record the last update_usage left and the get_stats calls since;
\* usage: the object the provider reported to the last recordUsage
LedNew(d, faulty) ==
    [usage |-> NoUsage, doc |-> d, init |-> d, faulty |-> faulty, n |-> 0, op |-> "none",
     fault |-> "none", exc |-> "", snap |-> << >>, pre |-> d, amt |-> ZeroAmt,
     day |-> 0, fresh |-> FALSE, restarted |-> FALSE,
     prev |-> [snap |-> << >>, day |-> 0],
     base |-> d.obj, gets |-> 0]

LedgerStart(docs, faulty) ==
    /\ cfg = [expiry_minutes |-> MaxExpiryMinutes,
              max_exchanges |-> MaxMaxExchanges,
              daily_token_limit |-> 20, api_key |-> FALSE,
              usages |-> Usages]
    /\ BotIdle
    /\ now = 0
    /\ sessions = << >>
    /\ ret = <<>>
    /\ last = NoCall
    /\ live = [u \in Users |-> <<>>]
    /\ lastAppendAt = << >>
    /\ nAppends = 0
    /\ noSweep = NoSweepYet
    /\ built = NoBuild
    /\ \E d \in docs : led = LedNew(d, faulty)

LedgerInit == LedgerStart(WellFormedDocs, FALSE)

FaultInit == LedgerStart(WellFormedDocs \cup MalformedDocs, TRUE)

FaultsNow == IF led.faulty THEN Faults ELSE {"none"}

\* currentStats()
LedgerGetStats ==
    /\ led.n < MaxLedgerCalls
    /\ \E fault \in FaultsNow :
          LET res == GetStats(led.doc, Today(now), fault)
          IN led' = [led EXCEPT
                       !.doc = res.doc, !.n = @ + 1, !.op = "get_stats",
                       !.fault = fault, !.exc = res.exc, !.snap = res.snap,
                       !.pre = led.doc, !.amt = ZeroAmt, !.day = Today(now),
                       !.usage = NoUsage,
                       !.restarted = led.fresh, !.fresh = FALSE,
                       !.prev = [snap |-> led.snap, day |-> led.day],
                       !.gets = @ + 1]
    /\ UNCHANGED <<cfg, now, memVars, file, initFile, req, nReq, loop, dash,
                   nGets, recordedOn, resets, usageOrder, lastCheck>>

\* recordUsage: update_and_format_usage(usage, token_manager)
LedgerUpdateUsage(usage) ==
    /\ led.n < MaxLedgerCalls
    /\ \E fault \in FaultsNow :
          LET amt == UsageTokens(usage)
              res == UpdateUsage(led.doc, Today(now), amt, fault)
          IN /\ led' = [led EXCEPT
                          !.doc = res.doc, !.n = @ + 1, !.op = "update_usage",
                          !.fault = fault, !.exc = res.exc, !.snap = res.snap,
                          !.pre = led.doc, !.amt = amt, !.day = Today(now),
                          !.usage = usage,
                          !.restarted = led.fresh, !.fresh = FALSE,
                          !.prev = [snap |-> led.snap, day |-> led.day],
                          !.base = IF res.exc = "" THEN res.snap ELSE @,
                          !.gets = 0]
             /\ recordedOn' =
                  IF res.exc = ""
                  THEN [recordedOn EXCEPT ![Today(now)] =
                          [p |-> @.p + amt.p, c |-> @.c + amt.c,
                           t |-> @.t + amt.t]]
                  ELSE recordedOn
    /\ UNCHANGED <<cfg, now, memVars, file, initFile, req, nReq, loop, dash,
                   nGets, resets, usageOrder, lastCheck>>

\* the process is started again on the same file: TokenManager.__init__
LedgerRestart ==
    /\ led.n > 0
    /\ led.n < MaxLedgerCalls
    /\ ~led.fresh
    /\ led' = [led EXCEPT !.doc = EnsureFile(@), !.op = "restart",
                          !.usage = NoUsage,
                          !.fresh = TRUE]
    /\ UNCHANGED <<cfg, now, memVars, file, initFile, req, nReq, loop, dash,
                   nGets, recordedOn, resets, usageOrder, lastCheck>>

LedgerNext ==
    \/ LedgerGetStats
    \/ \E usage \in LedgerUsages : LedgerUpdateUsage(usage)
    \/ LedgerRestart
    \/ Tick

SpecLedger == LedgerInit /\ [][LedgerNext]_vars

SpecFaults == FaultInit /\ [][LedgerNext]_vars

\* the ledger on the file _ensure_file creates, _default_stats
FreshInit == LedgerStart({ObjectDoc(ToJson(DefaultStats))}, FALSE)

\* usage objects whose counts are all non-negative
NonNegativeUsages ==
    {u \in LedgerUsages :
        LET a == UsageTokens(u) IN a.p >= 0 /\ a.c >= 0 /\ a.t >= 0}

FreshNext ==
    \/ LedgerGetStats
    \/ \E usage \in NonNegativeUsages : LedgerUpdateUsage(usage)
    \/ LedgerRestart
    \/ Tick

SpecFresh == FreshInit /\ [][FreshNext]_vars

(***************************************************************************)
(* Claims about the ledger and the request handler.                        *)
(***************************************************************************)
RECURSIVE RecordedUpTo(_)
\* the amounts recorded on the dates 0..d, as <<prompt, completion, total>>
RecordedUpTo(d) ==
    LET here == <<recordedOn[d].p, recordedOn[d].c, recordedOn[d].t>>
    IN IF d = 0 THEN here
       ELSE LET rest == RecordedUpTo(d - 1)
            IN <<rest[1] + here[1], rest[2] + here[2], rest[3] + here[3]>>

Plus3(a, b) == <<a[1] + b[1], a[2] + b[2], a[3] + b[3]>>

\* the epoch counters the process started with, as far as they belong to
\* the date d
EpochBase(d) ==
    IF initFile.data.last_reset_date = d THEN Epoch(initFile.data)
    ELSE <<0, 0, 0>>

\* the stated thresholds on the epoch total d, in exact arithmetic
PolicyClass(d) ==
    IF cfg.daily_token_limit > 0 /\ 100 * d > 95 * cfg.daily_token_limit
    THEN "exhausted"
    ELSE IF cfg.daily_token_limit > 0 /\ 100 * d > 80 * cfg.daily_token_limit
    THEN "fallback"
    ELSE "primary"

(***************************************************************************)
(* C4: whatever the order in which the provider calls of the requests      *)
(* complete, once the event loop is between handlers the lifetime totals   *)
(* are the initial totals plus all recorded amounts, and the epoch totals  *)
(* are those of the stored date plus the amounts recorded on that date:    *)
(* no update_usage is lost.                                                *)
(***************************************************************************)
C4_NoLostUpdate ==
    loop.pc = "idle" =>
        /\ file.ok
        /\ Lifetime(file.data) =
             Plus3(Lifetime(initFile.data), RecordedUpTo(MaxDay))
        /\ Epoch(file.data) =
             LET d == file.data.last_reset_date
             IN Plus3(EpochBase(d),
                      <<recordedOn[d].p, recordedOn[d].c, recordedOn[d].t>>)

\* two requests were in flight together and recorded their usage in the
\* order opposite to their arrival, on one day
C4_Witness ==
    /\ loop.pc = "idle"
    /\ usageOrder = <<2, 1>>
    /\ \E d \in 1..MaxDay : recordedOn[d].t = RecordedUpTo(MaxDay)[3]
    /\ file.data.total_tokens > initFile.data.total_tokens

(***************************************************************************)
(* C5: the read / rollover-check / write sequence of the ledger is atomic  *)
(* with respect to the dashboard thread: whenever no ledger call is in     *)
(* progress the persisted totals include every recorded amount.            *)
(***************************************************************************)
C5_LedgerAtomic ==
    (loop.pc = "idle" /\ dash.pc = "idle") =>
        /\ file.ok
        /\ file.data.total_tokens =
             initFile.data.total_tokens + RecordedUpTo(MaxDay)[3]

(***************************************************************************)
(* C6: a request that finds the epoch ratio above 0.95 is refused for      *)
(* quota, the provider is not invoked for it, and it leaves the session    *)
(* store (sessions, turns, timestamps) and the ledger counters unchanged.  *)
(***************************************************************************)
C6_QuotaRefusal ==
    \A r \in 1..MaxRequests :
        /\ (req[r].d1 >= 0 /\ PolicyClass(req[r].d1) = "exhausted")
              => req[r].outcome = "quotaExceeded"
        /\ req[r].outcome = "quotaExceeded" =>
              /\ req[r].calls = 0
              /\ req[r].model = ""
              /\ ~req[r].eff.store
              /\ ~req[r].eff.counters

\* a request was refused for quota while the store held a session
C6_Witness ==
    \E r \in 1..MaxRequests :
        /\ req[r].outcome = "quotaExceeded"
        /\ req[r].d1 = cfg.daily_token_limit
        /\ DOMAIN sessions # {}

(***************************************************************************)
(* C7 as stated: a request whose provider reply is empty or whitespace     *)
(* leaves the user's session and the ledger counters unchanged.            *)
(***************************************************************************)
C7_EmptyReplyNoChange ==
    \A r \in 1..MaxRequests :
        req[r].outcome = "emptyModelResponse" =>
            /\ ~req[r].eff.store
            /\ ~req[r].eff.counters
            /\ ~req[r].eff.turns

(***************************************************************************)
(* C7 amended: an empty or whitespace-only reply gives the empty-response  *)
(* refusal; the request changes the turns a read returns for no user,      *)
(* changes no lifetime counter, and changes the epoch counters only by     *)
(* the reset at a date change; what it may change in the store is an       *)
(* empty session created or put in place of an expired one.                *)
(***************************************************************************)
C7_EmptyReplyKeepsTurns ==
    \A r \in 1..MaxRequests :
        /\ (req[r].reply \in {"", " "}) <=> (req[r].outcome = "emptyModelResponse")
        /\ req[r].outcome = "emptyModelResponse" =>
              /\ req[r].state = "done"
              /\ ~req[r].eff.turns
              /\ ~req[r].eff.lifetime
              /\ ~req[r].eff.epoch
              /\ ~req[r].eff.nonempty

\* the second request of a user got a whitespace reply and the session
\* still holds the two turns of the first
C7_Witness ==
    /\ req[1].outcome = "result"
    /\ req[2].outcome = "emptyModelResponse"
    /\ req[2].reply = " "
    /\ req[2].user = req[1].user
    /\ req[1].user \in DOMAIN sessions
    /\ Len(sessions[req[1].user].messages) = 2

(***************************************************************************)
(* C8 as stated: a request whose provider call fails performs no           *)
(* mutation: the session store and the ledger counters are as before.      *)
(***************************************************************************)
C8_FailureNoMutation ==
    \A r \in 1..MaxRequests :
        req[r].outcome \in Failures =>
            /\ ~req[r].eff.store
            /\ ~req[r].eff.counters

(***************************************************************************)
(* C8 amended: a failed provider call is reported by the kind of its       *)
(* cause (a rate limit as rateLimited, not as the provider error); the     *)
(* request changes the turns a read returns for no user, changes no        *)
(* lifetime counter, and changes the epoch counters only by the reset at   *)
(* a date change; what it may change in the store is an empty session      *)
(* created or put in place of an expired one.                              *)
(***************************************************************************)
C8_FailureKindAndFrame ==
    \A r \in 1..MaxRequests :
        /\ (req[r].exc # "") <=> (req[r].outcome \in Failures)
        /\ req[r].exc = "RuntimeError" => req[r].outcome = "missingCredential"
        /\ req[r].exc = "RateLimitError" => req[r].outcome = "rateLimited"
        /\ req[r].exc = "APIError" => req[r].outcome = "providerError"
        /\ req[r].exc = "Exception" => req[r].outcome = "unexpected"
        /\ req[r].outcome \in Failures =>
              /\ req[r].state = "done"
              /\ ~req[r].eff.turns
              /\ ~req[r].eff.lifetime
              /\ ~req[r].eff.epoch
              /\ ~req[r].eff.nonempty

\* a rate-limited request of a user whose session holds two turns
C8_Witness ==
    /\ req[1].outcome = "result"
    /\ req[2].outcome = "rateLimited"
    /\ req[2].exc = "RateLimitError"
    /\ req[2].user = req[1].user
    /\ req[1].user \in DOMAIN sessions
    /\ Len(sessions[req[1].user].messages) = 2

(***************************************************************************)
(* C9: the epoch ratio is classified into exactly one of three outcomes:   *)
(* above 0.95 the request is refused and no model is chosen; above 0.80    *)
(* and up to 0.95 the fallback model is chosen and the warning is not      *)
(* empty; up to 0.80 the primary model is chosen and the warning is        *)
(* empty.  The refusal and the warning follow the epoch total of the       *)
(* first ledger read (d1), the model that of the second (d2).              *)
(***************************************************************************)
C9_PolicyClasses ==
    \A r \in 1..MaxRequests :
        /\ req[r].d1 >= 0 =>
              ((req[r].outcome = "quotaExceeded")
                  <=> (PolicyClass(req[r].d1) = "exhausted"))
        /\ req[r].outcome = "quotaExceeded" => req[r].model = ""
        /\ req[r].d2 >= 0 =>
              /\ req[r].model \in {DEFAULT_MODEL, FALLBACK_MODEL}
              /\ (req[r].model = FALLBACK_MODEL)
                    <=> (PolicyClass(req[r].d2) # "primary")
              /\ (req[r].warning # NoWarning)
                    <=> (PolicyClass(req[r].d1) = "fallback")
              /\ req[r].d1 = req[r].d2 =>
                    /\ PolicyClass(req[r].d1) = "fallback" =>
                          /\ req[r].model = FALLBACK_MODEL
                          /\ req[r].warning # NoWarning
                    /\ PolicyClass(req[r].d1) = "primary" =>
                          /\ req[r].model = DEFAULT_MODEL
                          /\ req[r].warning = NoWarning

\* ratio exactly 0.80 chose the primary model without warning, and ratio
\* exactly 0.95 chose the fallback model with the warning
C9_Witness ==
    /\ cfg.daily_token_limit = 20
    /\ req[1].d1 = 16 /\ req[1].d2 = 16
    /\ req[1].model = DEFAULT_MODEL /\ req[1].warning = NoWarning
    /\ req[2].d1 = 19 /\ req[2].d2 = 19
    /\ req[2].model = FALLBACK_MODEL /\ req[2].warning = <<19, 20>>

(***************************************************************************)
(* C10: over any sequence of ledger calls the epoch counters are reset     *)
(* once per date: no date is reset to twice, every completed call leaves   *)
(* the stored date at the date it compared against, a stored date other    *)
(* than the initial one was reached by exactly one reset, and the epoch    *)
(* total is what was recorded on the stored date.                          *)
(***************************************************************************)
C10_ResetOncePerDay ==
    /\ \A d \in 0..MaxDay : resets[d] <= 1
    /\ loop.pc = "idle" =>
          /\ lastCheck > 0 => file.data.last_reset_date = lastCheck
          /\ \A d \in 1..MaxDay :
                (file.data.last_reset_date = d
                   /\ initFile.data.last_reset_date # d) => resets[d] = 1
          /\ file.data.daily_tokens =
                EpochBase(file.data.last_reset_date)[3]
                  + recordedOn[file.data.last_reset_date].t

\* the ledger of day 1 was reset once on day 2, and two requests then
\* recorded their usage on day 2 (six ledger calls after the reset)
C10_Witness ==
    /\ initFile.data.last_reset_date = 1
    /\ resets[2] = 1
    /\ file.data.last_reset_date = 2
    /\ req[1].outcome = "result"
    /\ req[2].outcome = "result"
    /\ recordedOn[1].t = 0
    /\ file.data.daily_tokens = recordedOn[2].t

(***************************************************************************)
(* Claims about the ledger called directly.                                *)
(***************************************************************************)
Amt3(a) == <<a.p, a.c, a.t>>

\* the epoch counters of record d as far as they belong to the date day
EpochOn(d, day) == IF d.last_reset_date = day THEN Epoch(d) ELSE <<0, 0, 0>>

LedgerReturned == led.op \in {"get_stats", "update_usage"} /\ led.exc = ""

(***************************************************************************)
(* C11: every snapshot returned by update_usage or get_stats carries the   *)
(* UTC date of the call; its epoch counters are exactly what was recorded  *)
(* on that date (with the epoch counters the file started with, when they  *)
(* are of that date), and its lifetime counters are the initial ones plus  *)
(* everything recorded: the reset zeroes the epoch, not the lifetime.      *)
(***************************************************************************)
C11_SnapshotOfToday ==
    LedgerReturned =>
        LET s == FromJson(led.snap)
            i == FromJson(led.init.obj)
        IN /\ s.last_reset_date = led.day
           /\ Epoch(s) = Plus3(EpochOn(i, led.day), Amt3(recordedOn[led.day]))
           /\ Lifetime(s) = Plus3(Lifetime(i), RecordedUpTo(MaxDay))

\* usage recorded on day 2 on a ledger that held 16 epoch tokens of day 1:
\* the snapshot's epoch holds the new amount only, the lifetime both
C11_Witness ==
    /\ led.op = "update_usage"
    /\ led.exc = ""
    /\ led.day = 2
    /\ led.init = ObjectDoc(ToJson(PersistedStats))
    /\ led.pre.obj.last_reset_date = JStr(1)
    /\ led.amt.t = 3
    /\ led.snap.daily_tokens = JInt(3)
    /\ led.snap.total_tokens = JInt(23)

(***************************************************************************)
(* C12: after any number of consecutive get_stats calls since the last     *)
(* update_usage, the lifetime counters are those the update left, and the  *)
(* epoch counters are those the update left while the date is the same     *)
(* and zero once the date has changed.                                     *)
(***************************************************************************)
C12_StatsIdempotent ==
    led.gets > 0 =>
        LET cur == FromJson(led.doc.obj)
            b == FromJson(led.base)
        IN /\ Lifetime(cur) = Lifetime(b)
           /\ Epoch(cur) = EpochOn(b, cur.last_reset_date)
           /\ led.op = "get_stats" => led.snap = led.doc.obj

\* two get_stats calls in a row on the day of the last recording
C12_Witness ==
    /\ led.gets >= 2
    /\ led.op = "get_stats"
    /\ led.base.daily_tokens.v > 0
    /\ led.base.last_reset_date = JStr(led.day)
    /\ led.snap.daily_tokens = led.base.daily_tokens

(***************************************************************************)
(* C13: update_usage(p, c, t) applies the reset rule, adds p, c and t to   *)
(* the lifetime counters and to the epoch counters, writes the result to   *)
(* the file and returns the record it wrote.                               *)
(***************************************************************************)
C13_RecordUsageAdds ==
    (led.op = "update_usage" /\ led.exc = "") =>
        LET s == FromJson(led.snap)
            p == FromJson(led.pre.obj)
        IN /\ Lifetime(s) = Plus3(Lifetime(p), Amt3(led.amt))
           /\ Epoch(s) = Plus3(EpochOn(p, led.day), Amt3(led.amt))
           /\ s.last_reset_date = led.day
           /\ led.doc = ObjectDoc(led.snap)

\* usage (1, 2, 3) recorded on the day of the stored epoch counters
C13_Witness ==
    /\ led.op = "update_usage"
    /\ led.exc = ""
    /\ led.amt = [p |-> 1, c |-> 2, t |-> 3]
    /\ led.pre.obj.last_reset_date = JStr(led.day)
    /\ led.pre.obj.daily_completion.v > 0
    /\ led.snap.daily_completion.v = led.pre.obj.daily_completion.v + 2
    /\ led.doc.obj.total_tokens.v = led.pre.obj.total_tokens.v + 3

(***************************************************************************)
(* C14: no update_usage call lowers a lifetime counter, and none lowers    *)
(* an epoch counter on the day of the stored date.                         *)
(***************************************************************************)
C14_CountersNeverLowered ==
    (led.op = "update_usage" /\ led.exc = "") =>
        LET s == FromJson(led.snap)
            p == FromJson(led.pre.obj)
        IN /\ \A i \in 1..3 : Lifetime(s)[i] >= Lifetime(p)[i]
           /\ p.last_reset_date = led.day =>
                 \A i \in 1..3 : Epoch(s)[i] >= Epoch(p)[i]

(***************************************************************************)
(* C15: a ledger call during which reading or writing the file fails       *)
(* raises nothing to its caller and returns a snapshot.                    *)
(***************************************************************************)
C15_PersistenceNeverRaises ==
    (led.op \in {"get_stats", "update_usage"} /\ led.fault # "none") =>
        /\ led.exc = ""
        /\ led.snap # << >>

(***************************************************************************)
(* C16: a ledger call that finds the file absent, unparsable, not an       *)
(* object, or with missing or non-numeric counters raises nothing, leaves  *)
(* a well-formed record in the file, and counts a file that has no usable  *)
(* record as all zero.                                                     *)
(***************************************************************************)
C16_MalformedReadsAsZero ==
    (led.op \in {"get_stats", "update_usage"} /\ led.fault = "none"
       /\ ~WellFormed(led.pre)) =>
        /\ led.exc = ""
        /\ WellFormed(led.doc)
        /\ led.pre.kind # "object" =>
              Lifetime(FromJson(led.snap)) = Amt3(led.amt)

(***************************************************************************)
(* C18: a get_stats call that follows a restart of the process, on the     *)
(* day of the last call before the restart, returns the snapshot that      *)
(* call returned: the same lifetime totals, epoch totals and date.         *)
(***************************************************************************)
C18_RoundTrip ==
    (led.op = "get_stats" /\ led.restarted /\ led.exc = ""
       /\ led.prev.snap # << >> /\ led.prev.day = led.day) =>
        led.snap = led.prev.snap

\* usage was recorded, the process restarted, and get_stats on the same
\* day returned the recorded totals
C18_Witness ==
    /\ led.op = "get_stats"
    /\ led.restarted
    /\ led.prev.day = led.day
    /\ led.prev.snap # << >>
    /\ led.prev.snap.daily_tokens.v > 0
    /\ led.prev.snap.total_tokens.v > led.init.obj.total_tokens.v
    /\ led.snap = led.prev.snap

(***************************************************************************)
(* C17: a request that ends with a result, whose completion reported t     *)
(* tokens in total, leaves the epoch total larger by exactly t than the    *)
(* total it was admitted with (no other request recorded usage meanwhile   *)
(* and the date did not change); the request that begins next on that      *)
(* date is decided from the updated total.  With limit 1000 and a fresh    *)
(* ledger, a completion of 900 tokens makes the next request choose the    *)
(* fallback model with the warning naming 900/1000.                        *)
(***************************************************************************)
C17_UsageFeedsPolicy ==
    \A r \in 1..MaxRequests :
        /\ (req[r].outcome = "result" /\ req[r].recorded = req[r].began + 1
              /\ req[r].udate = req[r].date1) =>
                 req[r].after = req[r].d1 + req[r].amt.t
        /\ (req[r].d1 >= 0 /\ req[r].began > 0) =>
              LET q == usageOrder[req[r].began]
              IN req[q].udate = req[r].date1 =>
                    /\ req[r].d1 = req[q].after
                    /\ (req[r].outcome = "quotaExceeded")
                          <=> (PolicyClass(req[q].after) = "exhausted")
                    /\ (req[r].d2 = req[r].d1
                          /\ PolicyClass(req[q].after) = "fallback") =>
                             /\ req[r].model = FALLBACK_MODEL
                             /\ req[r].warning =
                                  <<req[q].after, cfg.daily_token_limit>>
                    /\ (req[q].after = 900 /\ cfg.daily_token_limit = 1000
                          /\ req[r].d2 = 900) =>
                             /\ req[r].model = FALLBACK_MODEL
                             /\ req[r].warning = <<900, 1000>>

\* scenario 1: the first request ran on the primary model without warning
\* and recorded 900 tokens; the second chose the fallback model and warns
\* with 900/1000
C17_Witness ==
    /\ cfg.daily_token_limit = 1000
    /\ initFile.data.daily_tokens = 0
    /\ req[1].d1 = 0
    /\ req[1].model = DEFAULT_MODEL
    /\ req[1].warning = NoWarning
    /\ req[1].outcome = "result"
    /\ req[1].amt.t = 900
    /\ req[1].after = 900
    /\ req[2].d1 = 900
    /\ req[2].model = FALLBACK_MODEL
    /\ req[2].warning = <<900, 1000>>

\* the prompt and the reply of request r as session turns
TurnsOf(r) ==
    <<[role |-> "user", content |-> 2 * r - 1],
      [role |-> "assistant", content |-> 2 * r]>>

\* the ledger increment of the running request is under way or made
Recording == loop.pc \in {"u_open", "u_flush"}

\* while the running request records its usage: its two turns are the
\* last two of the user's session, prompt before reply, and no session
\* that was expired when they were appended is left in the store
EffectsInOrder ==
    Recording =>
        LET r == loop.cur
            u == req[r].user
        IN /\ u \in DOMAIN sessions
           /\ LastN(sessions[u].messages, 2) = TurnsOf(r)
           /\ \A v \in DOMAIN sessions :
                 ~(sessions[u].last_active - sessions[v].last_active
                     > cfg.expiry_minutes)

(***************************************************************************)
(* C19 as stated: a request makes no session or ledger mutation before     *)
(* its provider call has returned usable text, and on success the prompt   *)
(* is appended, then the reply, then the sweep runs, then usage is         *)
(* recorded.                                                               *)
(***************************************************************************)
C19_NoMutationBeforeText ==
    /\ \A r \in 1..MaxRequests :
          req[r].state = "awaiting" =>
              /\ ~req[r].eff.store
              /\ ~req[r].eff.counters
    /\ EffectsInOrder

(***************************************************************************)
(* C19 amended: before its provider call has returned usable text a        *)
(* request appends no turn, changes the turns a read returns for no user,  *)
(* and increments no counter; it may create an empty session or put one    *)
(* in place of an expired session, and may apply the reset of a date       *)
(* change.  Usage is recorded only for requests whose reply is usable      *)
(* text, and when it is recorded the prompt and the reply are already the  *)
(* last two turns of the session, in that order, and the sweep has run.    *)
(***************************************************************************)
C19_EffectsAfterText ==
    /\ \A r \in 1..MaxRequests :
          /\ (req[r].state = "awaiting"
                \/ req[r].outcome \in Failures
                                        \cup {"emptyModelResponse", "quotaExceeded"}) =>
                /\ ~req[r].eff.turns
                /\ ~req[r].eff.lifetime
                /\ ~req[r].eff.epoch
                /\ ~req[r].eff.nonempty
                /\ req[r].recorded = 0
          /\ req[r].recorded > 0 => Strip(req[r].reply) # ""
          /\ (req[r].state = "awaiting" /\ req[r].user \in DOMAIN sessions) =>
                \A i \in 1..Len(sessions[req[r].user].messages) :
                    sessions[req[r].user].messages[i] \notin
                        {TurnsOf(r)[1], TurnsOf(r)[2]}
    /\ EffectsInOrder

\* the second request of a user records its usage: its session was
\* created by the first request before that one's provider call returned,
\* and now ends with the second prompt and reply
C19_Witness ==
    /\ loop.pc = "u_flush"
    /\ loop.cur = 2
    /\ req[1].outcome = "result"
    /\ req[1].eff.store
    /\ req[1].user = req[2].user
    /\ sessions[req[2].user].messages = TurnsOf(2)
    /\ loop.data.total_tokens =
          initFile.data.total_tokens + req[1].amt.t + req[2].amt.t

(***************************************************************************)
(* C20: clear_expired_sessions removes exactly the sessions whose          *)
(* last_active is more than expiry_minutes before the time of the call:    *)
(* every such session is gone afterwards, and every other session is       *)
(* still there with the same turns and the same last_active.               *)
(***************************************************************************)
C20_SweepExact ==
    [][ (last'.op = "sweep" /\ now' = now) =>
            LET expired == {u \in DOMAIN sessions :
                               now - sessions[u].last_active > cfg.expiry_minutes}
            IN /\ DOMAIN sessions' = DOMAIN sessions \ expired
               /\ \A u \in DOMAIN sessions' : sessions'[u] = sessions[u] ]_vars

\* a sweep found two sessions, removed the expired one and kept the other
\* with its turn
C20_Witness ==
    /\ last.op = "sweep"
    /\ last.old = 2
    /\ Cardinality(DOMAIN sessions) = 1
    /\ \E u \in DOMAIN sessions :
          /\ Len(sessions[u].messages) > 0
          /\ sessions[u].last_active = lastAppendAt[u]
          /\ now - sessions[u].last_active = cfg.expiry_minutes
    /\ \E v \in DOMAIN lastAppendAt :
          v \notin DOMAIN sessions /\ now - lastAppendAt[v] > cfg.expiry_minutes

(***************************************************************************)
(* C21: clear_expired_sessions is never needed for correctness.  Every     *)
(* read returns what it returns when the same appends and reads are made   *)
(* with no sweep at all, and at every moment every user's readable turns   *)
(* are those of the sweep-free store.                                      *)
(***************************************************************************)
C21_SweepNeverNeeded ==
    /\ ret = noSweep.ret
    /\ \A u \in Users : View(sessions, u, now) = View(noSweep.store, u, now)

\* a read found no session where the sweep-free store still held the
\* user's expired turns, and returned the same empty list
C21_Witness ==
    /\ last.op = "read"
    /\ last.old = 0
    /\ noSweep.old > 0
    /\ ret = <<>>
    /\ noSweep.ret = <<>>

(***************************************************************************)
(* C22: get_session_messages on a session that has not expired leaves the  *)
(* session's turns and its last_active as they were, so a session that     *)
(* holds turns always carries the time of the user's last add_message and  *)
(* expires expiry_minutes after it however often it is read.               *)
(***************************************************************************)
C22_ReadKeepsSession ==
    [][/\ \A u \in Users :
            (/\ last'.op = "read"
             /\ last'.user = u
             /\ now' = now
             /\ nAppends' = nAppends
             /\ u \in DOMAIN sessions
             /\ ~IsExpired(sessions[u].last_active, now))
            => (u \in DOMAIN sessions' /\ sessions'[u] = sessions[u])
       /\ \A u \in DOMAIN sessions' :
            sessions'[u].messages # <<>>
            => sessions'[u].last_active = lastAppendAt'[u]]_vars

\* a read made after the last append returned the turns and left the
\* session's last_active at the time of that append
C22_Witness ==
    /\ last.op = "read"
    /\ ~last.idle
    /\ ret # <<>>
    /\ last.user \in DOMAIN sessions
    /\ sessions[last.user].last_active < now
    /\ sessions[last.user].last_active = lastAppendAt[last.user]

(***************************************************************************)
(* C23: the list _build_messages hands to the provider is the system       *)
(* prompt, then one system message with the repository context exactly     *)
(* when get_latest_entries returned entries, then the stored turns of the  *)
(* user's session in stored order, then the new user prompt, which is not  *)
(* part of the session when the list is built.                             *)
(***************************************************************************)
C23_MessageOrder ==
    (built.user # 0) =>
        LET m == built.messages
            k == IF built.repo # <<>> THEN 1 ELSE 0
        IN /\ Len(m) = 1 + k + Len(built.stored) + 1
           /\ m[1] = [role |-> "system", content |-> SystemPrompt]
           /\ (k = 1) => m[2] = [role |-> "system",
                                 content |-> RepositoryContext(built.repo)]
           /\ \A i \in 1..Len(built.stored) : m[1 + k + i] = built.stored[i]
           /\ m[Len(m)] = [role |-> "user", content |-> built.prompt]
           /\ \A i \in 1..Len(built.stored) :
                 built.stored[i].content # built.prompt
           /\ (last.op = "build") =>
                 sessions[built.user].messages = built.stored

\* a list built from a repository longer than the limit and a session
\* holding two turns
C23_Witness ==
    /\ last.op = "build"
    /\ built.repo = <<4, 3, 2>>
    /\ Len(built.stored) = 2
    /\ Len(built.messages) = 5
    /\ built.messages[2].content = 0 - 432
    /\ built.messages[5].content = built.prompt

(***************************************************************************)
(* C24: the counts update_and_format_usage passes to update_usage are the  *)
(* provider's: a prompt or completion count the provider did not give is   *)
(* 0, and the total is prompt + completion whenever the provider gave no   *)
(* total, be the attribute absent or None.                                 *)
(***************************************************************************)
Given(f) == f.kind = "int"

C25_NoLimitNoPolicy ==
    (cfg.daily_token_limit <= 0) =>
        \A r \in 1..MaxRequests :
            /\ req[r].outcome # "quotaExceeded"
            /\ (req[r].d1 >= 0) =>
                  UsageRatio([daily_tokens |-> req[r].d1]) = <<0, 1>>
            /\ (req[r].d2 >= 0) =>
                  /\ req[r].model = DEFAULT_MODEL
                  /\ req[r].warning = NoWarning

\* with no limit, a request that read an epoch total of 19 or more got
\* its reply from the primary model
C25_Witness ==
    /\ cfg.daily_token_limit <= 0
    /\ \E r \in 1..MaxRequests :
          /\ req[r].d1 >= 19
          /\ req[r].model = DEFAULT_MODEL
          /\ req[r].warning = NoWarning
          /\ req[r].outcome = "result"

(***************************************************************************)
(* C26: every on_message invocation that has ended sent exactly one        *)
(* message to the channel, and that message is the reply, one of the two   *)
(* refusals or one of the four failures.                                   *)
(***************************************************************************)
Outcomes ==
    {"result", "quotaExceeded", "emptyModelResponse"} \cup Failures

C26_OneOutcome ==
    \A r \in 1..MaxRequests :
        /\ req[r].sent <= 1
        /\ (req[r].state = "done") =>
              (req[r].sent = 1 /\ req[r].outcome \in Outcomes)
        /\ (req[r].state # "done") =>
              (req[r].sent = 0 /\ req[r].outcome = "")

(***************************************************************************)
(* C27: the provider is invoked at most once per on_message invocation:    *)
(* once for a request that got past the quota test with a credential, and  *)
(* not at all for a request refused for quota or failed for the missing    *)
(* credential.                                                             *)
(***************************************************************************)
C27_NoRetry ==
    \A r \in 1..MaxRequests :
        /\ req[r].calls <= 1
        /\ (req[r].outcome \in {"quotaExceeded", "missingCredential"}) =>
              req[r].calls = 0
        /\ (req[r].state = "awaiting") => req[r].calls = 1
        /\ (req[r].outcome \in {"result", "emptyModelResponse", "rateLimited",
                                 "providerError", "unexpected"}) =>
              req[r].calls = 1

\* a request got its reply after its single provider call and the next
\* one was refused for quota without any
C27_Witness ==
    \E r1, r2 \in 1..MaxRequests :
        /\ req[r1].outcome = "result"
        /\ req[r1].calls = 1
        /\ req[r2].outcome = "quotaExceeded"
        /\ req[r2].calls = 0

(***************************************************************************)
(* C28: sessions are isolated per user.  Whenever the turns a read would   *)
(* return for a user change while the clock stands still, the step is one  *)
(* of a request of that very user: no step of another user's request, its  *)
(* read, its two appends or its sweep, changes them.                       *)
(***************************************************************************)
C28_SessionsIsolated ==
    [][\A v \in Users :
          (now' = now /\ View(sessions', v, now) # View(sessions, v, now))
          => \E r \in 1..MaxRequests :
                /\ req'[r].user = v
                /\ req'[r] # req[r]]_vars

\* both users got a reply and each session holds its own two turns
C28_Witness ==
    /\ req[1].user = 1
    /\ req[2].user = 2
    /\ req[1].outcome = "result"
    /\ req[2].outcome = "result"
    /\ View(sessions, 1, now) = <<[role |-> "user", content |-> 1],
                                  [role |-> "assistant", content |-> 2]>>
    /\ View(sessions, 2, now) = <<[role |-> "user", content |-> 3],
                                  [role |-> "assistant", content |-> 4]>>

(***************************************************************************)
(* C29: a pending provider call blocks nobody.  While a request awaits the *)
(* provider, a new request of any author is admitted as soon as no handler *)
(* is running, and a running handler can always take its next step.        *)
(***************************************************************************)
HandlerStep ==
    G1Open \/ G1Flush \/ G2Read \/ G2Open \/ G2Flush \/ UOpen \/ UFlush

C29_NoBlocking ==
    (\E r \in 1..MaxRequests : req[r].state = "awaiting") =>
        /\ (loop.pc = "idle" /\ nReq < MaxRequests) =>
              \A u \in KnownUsers \cup {FirstNewUser} : ENABLED BeginRequest(u)
        /\ (loop.pc # "idle") => ENABLED HandlerStep

\* the second user's request was admitted, called the provider and got
\* its reply while the first user's provider call was still pending
C29_Witness ==
    /\ req[1].state = "awaiting"
    /\ req[2].user # req[1].user
    /\ req[2].calls = 1
    /\ req[2].outcome = "result"

(***************************************************************************)
(* C30: within one on_message invocation the warning is non-empty exactly  *)
(* when the fallback model is the one passed to the provider.              *)
(***************************************************************************)
C30_WarningIffFallback ==
    \A r \in 1..MaxRequests :
        (req[r].d2 >= 0) =>
            ((req[r].warning # NoWarning) <=> (req[r].model = FALLBACK_MODEL))

(***************************************************************************)
(* C31: the prompt and the reply of a request are appended next to each    *)
(* other, also when requests of the same user overlap: every session holds *)
(* an even number of turns, user then assistant in turn, and each          *)
(* assistant turn is the reply of the request whose prompt precedes it,    *)
(* also after add_message has cut the session at the cap.                  *)
(***************************************************************************)
C31_PairsAdjacent ==
    \A u \in DOMAIN sessions :
        LET m == sessions[u].messages
        IN /\ Len(m) % 2 = 0
           /\ \A i \in 1..Len(m) :
                 (i % 2 = 1) =>
                    /\ m[i].role = "user"
                    /\ m[i].content % 2 = 1
                    /\ m[i + 1] = [role |-> "assistant",
                                   content |-> m[i].content + 1]

\* two requests of one user were in flight together, the second was
\* answered first, and the session, cut at the cap, holds the pair of the
\* first
C31_Witness ==
    /\ req[1].user = req[2].user
    /\ req[2].began = 0
    /\ usageOrder = <<2, 1>>
    /\ req[1].outcome = "result"
    /\ req[2].outcome = "result"
    /\ Len(sessions[req[1].user].messages) = 2 * cfg.max_exchanges
    /\ sessions[req[1].user].messages[1] = [role |-> "user", content |-> 1]

(***************************************************************************)
(* C32: the two appends and the ledger increment of a request go together: *)
(* a request that has ended has added its two turns to the session exactly *)
(* when it has passed its counts to update_usage.                          *)
(***************************************************************************)
\* request r passed the empty-reply test: lines 414-415 appended its turns
Appended(r) == req[r].reply # "none" /\ Strip(req[r].reply) # ""

C32_AppendsAndUsageTogether ==
    \A r \in 1..MaxRequests :
        (req[r].state = "done") => (Appended(r) <=> req[r].recorded > 0)

(***************************************************************************)
(* C33: within one UTC day the policy only degrades.  While the date of a  *)
(* request's first ledger read is still the date of the clock, a request   *)
(* begun after one that was given the fallback model is not given the      *)
(* primary model, and a request begun after one that was refused for quota *)
(* is refused as well.                                                     *)
(***************************************************************************)
C33_OnlyDegrades ==
    \A r1, r2 \in 1..MaxRequests :
        (r1 < r2 /\ req[r1].date1 = Today(now)) =>
            /\ (req[r1].model = FALLBACK_MODEL /\ req[r2].model # "")
                  => req[r2].model = FALLBACK_MODEL
            /\ (req[r1].outcome = "quotaExceeded" /\ req[r2].d1 >= 0)
                  => req[r2].outcome = "quotaExceeded"

(***************************************************************************)
(* C34: from the all-zero ledger, with non-negative amounts recorded,      *)
(* every record the ledger returns and every record on file has each epoch *)
(* counter at most the lifetime counter of the same kind.                  *)
(***************************************************************************)
EpochWithinLifetime(d) ==
    /\ d.daily_prompt <= d.total_prompt
    /\ d.daily_completion <= d.total_completion
    /\ d.daily_tokens <= d.total_tokens

C34_EpochWithinLifetime ==
    /\ WellFormed(led.doc)
    /\ EpochWithinLifetime(FromJson(led.doc.obj))
    /\ (led.op \in {"get_stats", "update_usage"}) =>
          EpochWithinLifetime(FromJson(led.snap))

\* usage recorded before and after a midnight: the epoch counters are
\* positive and strictly below the lifetime counters
C34_Witness ==
    /\ led.op = "update_usage"
    /\ led.doc.obj.daily_tokens.v > 0
    /\ led.doc.obj.daily_tokens.v < led.doc.obj.total_tokens.v
    /\ led.doc.obj.daily_prompt.v > 0
    /\ led.doc.obj.daily_prompt.v < led.doc.obj.total_prompt.v

=============================================================================

